---- MODULE Spec2Model ----
(***************************************************************************)
(* Receipt processor (src/app.py): the pydantic validators of Item and     *)
(* Receipt, calculate_points, and the two Flask handlers process_receipt   *)
(* and get_points over the in-memory dictionary receipts_db.               *)
(*                                                                         *)
(* Strings are sequences of one-character strings.  Python's float is the  *)
(* IEEE-754 binary64 format; it is modelled exactly, on arbitrary-size     *)
(* naturals kept as little-endian bit sequences (no leading zero bit).     *)
(***************************************************************************)
EXTENDS Integers, Sequences, FiniteSets, TLC

(***************************************************************************)
(* Arbitrary-size naturals: Python's int, and the significands of floats.  *)
(* A natural is the sequence of its base-2^15 limbs, least significant     *)
(* first, the last one nonzero; <<>> is 0.                                 *)
(***************************************************************************)
Base == 2^15

RECURSIVE Trim(_)
Trim(b) ==
    IF b = <<>> THEN <<>>
    ELSE IF b[Len(b)] # 0 THEN b
    ELSE Trim(SubSeq(b, 1, Len(b) - 1))

RECURSIVE NatOfInt(_)
NatOfInt(n) ==
    IF n = 0 THEN <<>> ELSE <<n % Base>> \o NatOfInt(n \div Base)

RECURSIVE IntOfNat(_)
IntOfNat(b) ==
    IF b = <<>> THEN 0 ELSE b[1] + Base * IntOfNat(Tail(b))

LimbAt(b, i) ==
    IF i <= Len(b) THEN b[i] ELSE 0

RECURSIVE AddCarry(_, _, _, _)
AddCarry(a, b, i, c) ==
    IF i > Len(a) /\ i > Len(b)
    THEN IF c = 0 THEN <<>> ELSE <<c>>
    ELSE LET s == LimbAt(a, i) + LimbAt(b, i) + c
         IN  <<s % Base>> \o AddCarry(a, b, i + 1, s \div Base)

NatAdd(a, b) ==
    Trim(AddCarry(a, b, 1, 0))

\* a * k for 0 <= k <= Base
RECURSIVE MulCarry(_, _, _, _)
MulCarry(a, k, i, c) ==
    IF i > Len(a)
    THEN IF c = 0 THEN <<>> ELSE <<c>>
    ELSE LET s == a[i] * k + c
         IN  <<s % Base>> \o MulCarry(a, k, i + 1, s \div Base)

NatMulSmall(a, k) ==
    Trim(MulCarry(a, k, 1, 0))

ShlLimbs(b, n) ==
    IF b = <<>> THEN <<>> ELSE [i \in 1..n |-> 0] \o b

RECURSIVE MulAcc(_, _, _)
MulAcc(a, b, i) ==
    IF i > Len(b) THEN <<>>
    ELSE NatAdd(ShlLimbs(NatMulSmall(a, b[i]), i - 1), MulAcc(a, b, i + 1))

NatMul(a, b) ==
    MulAcc(a, b, 1)

\* Long division of the natural b by the integer d, 0 < d <= Base, from the
\* most significant limb down: the quotient and the remainder.
RECURSIVE DivAcc(_, _, _, _)
DivAcc(b, d, i, r) ==
    IF i = 0 THEN [quot |-> <<>>, rem |-> r]
    ELSE LET cur == r * Base + b[i]
             rest == DivAcc(b, d, i - 1, cur % d)
         IN  [quot |-> Append(rest.quot, cur \div d), rem |-> rest.rem]

NatDivMod(b, d) ==
    LET dm == DivAcc(b, d, Len(b), 0)
    IN  [quot |-> Trim(dm.quot), rem |-> dm.rem]

RECURSIVE BitLenInt(_)
BitLenInt(n) ==
    IF n = 0 THEN 0 ELSE 1 + BitLenInt(n \div 2)

\* int.bit_length
BitLen(b) ==
    IF b = <<>> THEN 0 ELSE 15 * (Len(b) - 1) + BitLenInt(b[Len(b)])

\* bit i (from 0) of b
BitAt(b, i) ==
    (LimbAt(b, (i \div 15) + 1) \div 2^(i % 15)) % 2

\* b * 2^k
Shl(b, k) ==
    ShlLimbs(NatMulSmall(b, 2^(k % 15)), k \div 15)

\* b \div 2^k
Shr(b, k) ==
    IF k \div 15 >= Len(b) THEN <<>>
    ELSE NatDivMod(SubSeq(b, (k \div 15) + 1, Len(b)), 2^(k % 15)).quot

\* b % 2^k
LowBits(b, k) ==
    Trim([i \in 1..(k \div 15) |-> LimbAt(b, i)]
         \o <<LimbAt(b, (k \div 15) + 1) % 2^(k % 15)>>)

\* b % 2^k = 0
LowZero(b, k) ==
    LowBits(b, k) = <<>>

(***************************************************************************)
(* Characters and strings.                                                 *)
(***************************************************************************)
Digits == {"0", "1", "2", "3", "4", "5", "6", "7", "8", "9"}

\* the letters the model's inputs are written with
Letters == {"T", "a", "r", "g", "e", "t", "b", "c", "z"}

\* str.isspace / the regex class \s, on the characters the model uses
Whitespace == {" ", "\n"}

DigitVal(c) ==
    CASE c = "0" -> 0 [] c = "1" -> 1 [] c = "2" -> 2 [] c = "3" -> 3
      [] c = "4" -> 4 [] c = "5" -> 5 [] c = "6" -> 6 [] c = "7" -> 7
      [] c = "8" -> 8 [] c = "9" -> 9

AllDigits(s) ==
    \A i \in 1..Len(s) : s[i] \in Digits

\* int() of a string of decimal digits that fits a machine word of the model
RECURSIVE IntOfDigits(_)
IntOfDigits(s) ==
    IF s = <<>> THEN 0
    ELSE 10 * IntOfDigits(SubSeq(s, 1, Len(s) - 1)) + DigitVal(s[Len(s)])

\* the same, of any length, four digits at a time
RECURSIVE NatOfDigits(_)
NatOfDigits(s) ==
    IF Len(s) <= 4 THEN NatOfInt(IntOfDigits(s))
    ELSE NatAdd(NatMulSmall(NatOfDigits(SubSeq(s, 1, Len(s) - 4)), 10000),
                NatOfInt(IntOfDigits(SubSeq(s, Len(s) - 3, Len(s)))))

RECURSIVE lstrip(_)
lstrip(s) ==
    IF s # <<>> /\ s[1] \in Whitespace THEN lstrip(Tail(s)) ELSE s

RECURSIVE rstrip(_)
rstrip(s) ==
    IF s # <<>> /\ s[Len(s)] \in Whitespace
    THEN rstrip(SubSeq(s, 1, Len(s) - 1)) ELSE s

\* str.strip()
strip(s) ==
    rstrip(lstrip(s))

\* str.endswith
endswith(s, suffix) ==
    /\ Len(s) >= Len(suffix)
    /\ SubSeq(s, Len(s) - Len(suffix) + 1, Len(s)) = suffix

(***************************************************************************)
(* IEEE-754 binary64.  A finite float is m * 2^e with m = 0 or             *)
(* 2^52 <= m < 2^53; results are rounded to nearest, ties to even.         *)
(* Every nonzero value the program forms is at least 0.002, far above the  *)
(* subnormal range, so underflow is not modelled.                          *)
(***************************************************************************)
MantBits == 53

MaxExp == 1023

FloatZero == [kind |-> "fin", m |-> <<>>, e |-> 0]

FloatInf == [kind |-> "inf", m |-> <<>>, e |-> 0]

FloatNan == [kind |-> "nan", m |-> <<>>, e |-> 0]

\* The float nearest to q * 2^e, plus (when sticky) a positive amount below
\* one unit of q's last bit.
RoundSig(q, sticky, e) ==
    LET drop == BitLen(q) - MantBits
    IN  IF q = <<>> THEN FloatZero
        ELSE IF e + BitLen(q) - 1 > MaxExp THEN FloatInf
        ELSE IF drop <= 0
             THEN [kind |-> "fin", m |-> Shl(q, 0 - drop), e |-> e + drop]
        ELSE LET m0 == Shr(q, drop)
                 guard == BitAt(q, drop - 1)
                 low == sticky \/ ~LowZero(q, drop - 1)
                 up == guard = 1 /\ (low \/ BitAt(m0, 0) = 1)
                 m1 == IF up THEN NatAdd(m0, <<1>>) ELSE m0
             IN  IF BitLen(m1) > MantBits
                 THEN IF e + drop + MantBits > MaxExp THEN FloatInf
                      ELSE [kind |-> "fin", m |-> Shr(m1, 1), e |-> e + drop + 1]
                 ELSE [kind |-> "fin", m |-> m1, e |-> e + drop]

\* The float nearest to the rational N / d (N a natural, d a small integer)
RoundRatio(N, d) ==
    IF N = <<>> THEN FloatZero
    ELSE LET want == MantBits + 3 + BitLenInt(d) - BitLen(N)
             k == IF want > 0 THEN want ELSE 0
             dm == NatDivMod(Shl(N, k), d)
         IN  RoundSig(dm.quot, dm.rem # 0, 0 - k)

RECURSIVE Pow10(_)
Pow10(n) ==
    IF n = 0 THEN 1 ELSE 10 * Pow10(n - 1)

IndexOf(s, c) ==
    IF \E i \in 1..Len(s) : s[i] = c
    THEN CHOOSE i \in 1..Len(s) : s[i] = c /\ \A j \in 1..(i - 1) : s[j] # c
    ELSE 0

\* float(s) for a string that is, after float's own stripping of surrounding
\* whitespace, digits "." digits: the only strings the validators let through
float(s) ==
    LET t == strip(s)
        p == IndexOf(t, ".")
        ip == SubSeq(t, 1, p - 1)
        fp == SubSeq(t, p + 1, Len(t))
    IN  RoundRatio(NatOfDigits(ip \o fp), Pow10(Len(fp)))

\* a * b
float_mul(a, b) ==
    IF a.kind = "nan" \/ b.kind = "nan" THEN FloatNan
    ELSE IF a.kind = "inf" \/ b.kind = "inf"
         THEN IF (a.kind = "fin" /\ a.m = <<>>) \/ (b.kind = "fin" /\ b.m = <<>>)
              THEN FloatNan ELSE FloatInf
    ELSE RoundSig(NatMul(a.m, b.m), FALSE, a.e + b.e)

\* x % 0.25 for x >= 0: exact, the bits of x below 2^-2
float_mod_quarter(x) ==
    IF x.kind # "fin" THEN FloatNan
    ELSE IF x.e >= -2 THEN FloatZero
    ELSE RoundSig(LowBits(x.m, (0 - x.e) - 2), FALSE, x.e)

\* the literal 0.2
Float02 == RoundRatio(<<2>>, 10)

\* round(x) with one argument: the nearest int, ties to even; OverflowError
\* on an infinity, ValueError on a nan
round(x) ==
    IF x.kind = "inf" THEN [exc |-> "OverflowError", val |-> <<>>]
    ELSE IF x.kind = "nan" THEN [exc |-> "ValueError", val |-> <<>>]
    ELSE IF x.e >= 0 THEN [exc |-> "", val |-> Shl(x.m, x.e)]
    ELSE LET d == 0 - x.e
             ip == Shr(x.m, d)
             guard == BitAt(x.m, d - 1)
             low == ~LowZero(x.m, d - 1)
             up == guard = 1 /\ (low \/ BitAt(ip, 0) = 1)
         IN  [exc |-> "", val |-> IF up THEN NatAdd(ip, <<1>>) ELSE ip]

(***************************************************************************)
(* The regular expressions and datetime.strptime.                          *)
(***************************************************************************)
\* Where "$" can match in v: at the end, and just before a final newline.
DollarEnds(v) ==
    {v} \cup (IF v # <<>> /\ v[Len(v)] = "\n"
              THEN {SubSeq(v, 1, Len(v) - 1)} ELSE {})

\* re.match(r"^\d+\.\d{2}$", v)
match_amount(v) ==
    \E w \in DollarEnds(v) :
        /\ Len(w) >= 4
        /\ w[Len(w) - 2] = "."
        /\ AllDigits(SubSeq(w, 1, Len(w) - 3))
        /\ AllDigits(SubSeq(w, Len(w) - 1, Len(w)))

\* the class [\w\s\-&]
RetailerChars == Letters \cup Digits \cup {"_"} \cup Whitespace \cup {"-", "&"}

\* re.match(r"^[\w\s\-&]+$", v)
match_retailer(v) ==
    \E w \in DollarEnds(v) :
        w # <<>> /\ \A i \in 1..Len(w) : w[i] \in RetailerChars

\* re.match(r"^\d{4}-\d{2}-\d{2}$", v)
match_date(v) ==
    \E w \in DollarEnds(v) :
        /\ Len(w) = 10
        /\ w[5] = "-" /\ w[8] = "-"
        /\ AllDigits(SubSeq(w, 1, 4))
        /\ AllDigits(SubSeq(w, 6, 7))
        /\ AllDigits(SubSeq(w, 9, 10))

\* re.match(r"^\d{2}:\d{2}$", v)
match_time(v) ==
    \E w \in DollarEnds(v) :
        /\ Len(w) = 5
        /\ w[3] = ":"
        /\ AllDigits(SubSeq(w, 1, 2))
        /\ AllDigits(SubSeq(w, 4, 5))

\* re.match(r"^\S+$", receipt_id)
match_id(v) ==
    \E w \in DollarEnds(v) :
        w # <<>> /\ \A i \in 1..Len(w) : w[i] \notin Whitespace

IsLeap(y) ==
    (y % 4 = 0 /\ y % 100 # 0) \/ y % 400 = 0

DaysInMonth(y, m) ==
    IF m = 2 THEN (IF IsLeap(y) THEN 29 ELSE 28)
    ELSE IF m \in {4, 6, 9, 11} THEN 30 ELSE 31

\* datetime.strptime(v, '%Y-%m-%d') on a string match_date lets through: the
\* whole string must be consumed, the month be 01..12, the day 01..31, and the
\* date exist (year 1 at least); ok = FALSE stands for the ValueError
strptime_date(v) ==
    LET y == IntOfDigits(SubSeq(v, 1, 4))
        m == IntOfDigits(SubSeq(v, 6, 7))
        d == IntOfDigits(SubSeq(v, 9, 10))
    IN  [ok |-> /\ Len(v) = 10
                /\ y >= 1
                /\ m >= 1 /\ m <= 12
                /\ d >= 1 /\ d <= DaysInMonth(y, m),
         year |-> y, month |-> m, day |-> d]

\* datetime.strptime(v, '%H:%M') on a string match_time lets through
strptime_time(v) ==
    LET h == IntOfDigits(SubSeq(v, 1, 2))
        m == IntOfDigits(SubSeq(v, 4, 5))
    IN  [ok |-> Len(v) = 5 /\ h <= 23 /\ m <= 59, hour |-> h, minute |-> m]

\* the bug ">=" for ">": today counts as the future
date_ge(a, b) ==
    \/ a.year > b.year
    \/ a.year = b.year /\ a.month > b.month
    \/ a.year = b.year /\ a.month = b.month /\ a.day >= b.day

\* date.__gt__
date_gt(a, b) ==
    \/ a.year > b.year
    \/ a.year = b.year /\ a.month > b.month
    \/ a.year = b.year /\ a.month = b.month /\ a.day > b.day

(***************************************************************************)
(* The pydantic models.  A validator yields "" when it returns v and the   *)
(* message of its ValueError otherwise.                                    *)
(***************************************************************************)
validate_price(v) ==
    IF ~match_amount(v) THEN "Item price must be in the format '0.00'" ELSE ""

validate_retailer(v) ==
    IF ~match_retailer(v) THEN "Retailer name price must not be blank" ELSE ""

\* now is datetime.today().date()
validate_purchaseDate(v, now) ==
    IF ~match_date(v) THEN "Purchase date must be in the format 'YYYY-MM-DD'"
    ELSE LET purchase_date == strptime_date(v)
         IN  IF ~purchase_date.ok \/ date_gt(purchase_date, now)
             THEN "Purchase date must be correct"
             ELSE ""

validate_purchaseTime(v) ==
    IF ~match_time(v) THEN "Purchase time must be in the 24h format'HH:MM'"
    ELSE IF ~strptime_time(v).ok THEN "Purchase time must be correct"
    ELSE ""

validate_total(v) ==
    IF ~match_amount(v) THEN "Total must be in the format '0.00'" ELSE ""

\* One entry of ValidationError.errors() for a ValueError of a validator: loc
\* is the path to the field, msg the message behind pydantic's prefix
FieldError(loc, msg) ==
    IF msg = "" THEN <<>>
    ELSE <<[type |-> "value_error", loc |-> loc, msg |-> "Value error, " \o msg]>>

\* Item(**items[i]) for each element of the list, in order
RECURSIVE ItemErrors(_, _)
ItemErrors(items, i) ==
    IF i > Len(items) THEN <<>>
    ELSE FieldError(<<"items", i - 1, "price">>, validate_price(items[i].price))
         \o ItemErrors(items, i + 1)

\* Receipt(**data): the errors of the fields, in declaration order; <<>> when
\* the receipt is constructed
ReceiptErrors(data, now) ==
    FieldError(<<"retailer">>, validate_retailer(data.retailer))
    \o FieldError(<<"purchaseDate">>, validate_purchaseDate(data.purchaseDate, now))
    \o FieldError(<<"purchaseTime">>, validate_purchaseTime(data.purchaseTime))
    \o ItemErrors(data.items, 1)
    \o FieldError(<<"total">>, validate_total(data.total))

(***************************************************************************)
(* The amounts of the inputs.                                              *)
(***************************************************************************)
\* 2^47 = 140737488355328
Totals ==
    {<<"3", "5", ".", "3", "5">>, <<"1", "0", "0", ".", "0", "0">>,
     <<"0", ".", "2", "5">>, <<"1", ".", "0", "0", "\n">>,
     <<"7", "0", "3", "6", "8", "7", "4", "4", "1", "7", "7", "6", "6", "4",
       ".", "2", "4">>,
     <<"1", "4", "0", "7", "3", "7", "4", "8", "8", "3", "5", "5", "3", "2", "8",
       ".", "0", "1">>}

Item(shortDescription, price) ==
    [shortDescription |-> shortDescription, price |-> price]

Items ==
    {Item(<<"a", "b", "c">>, <<"2", ".", "5", "0">>),
     Item(<<" ", "T", "a", "b", " ", " ">>, <<"1", "2", ".", "2", "5">>),
     Item(<<" ", " ">>, <<"5", ".", "0", "0">>),
     Item(<<"a", "b", "c", "a", "b">>, <<"1", "2", ".", "5", "0">>)}

BaseTotal == <<"3", "5", ".", "3", "5">>

\* the amounts whose float results are computed once and looked up afterwards
MemoAmounts ==
    Totals \cup {i.price : i \in Items} \cup {BaseTotal}

(***************************************************************************)
(* calculate_points                                                        *)
(***************************************************************************)
\* 1. One point for every alphanumeric character in the retailer name.
RetailerPoints(retailer) ==
    Cardinality({i \in 1..Len(retailer) : retailer[i] \in Letters \cup Digits})

\* 2. 50 points if the total is a round dollar amount with no cents.
RoundDollarPoints(total) ==
    IF endswith(total, <<".", "0", "0">>) THEN 50 ELSE 0

\* float(receipt.total) % 0.25 == 0
QuarterTest(total) ==
    float_mod_quarter(float(total)) = FloatZero

\* the same, computed once for the amounts the inputs repeat
QuarterTestMemo == [v \in MemoAmounts |-> QuarterTest(v)]

\* 3. 25 points if the total is a multiple of 0.25.
QuarterPoints(total) ==
    IF (IF total \in MemoAmounts THEN QuarterTestMemo[total] ELSE QuarterTest(total))
    THEN 25 ELSE 0

\* 4. 5 points for every two items on the receipt.
PairPoints(items) ==
    (Len(items) \div 2) * 5

\* the test of rule 5 on one item
DescriptionQualifies(item) ==
    Len(strip(item.shortDescription)) % 3 = 0

\* round(float(item.price) * 0.2)
PriceRound(price) ==
    round(float_mul(float(price), Float02))

\* the same, computed once for the amounts the inputs repeat
PriceRoundMemo == [v \in MemoAmounts |-> PriceRound(v)]

PricePoints(item) ==
    IF item.price \in MemoAmounts THEN PriceRoundMemo[item.price]
    ELSE PriceRound(item.price)

\* points += round(...): r is what round gives for the item, rest the outcome
\* of the loop over the items after it; an exception of round ends the loop
AddItemPoints(r, rest) ==
    IF r.exc # "" THEN [exc |-> r.exc, points |-> 0]
    ELSE [exc |-> rest.exc, points |-> IntOfNat(r.val) + rest.points]

\* the bug "return inside the loop": only the first item is looked at
DescriptionPointsFirstOnly(items, i) ==
    IF i > Len(items) \/ ~DescriptionQualifies(items[i])
    THEN [exc |-> "", points |-> 0]
    ELSE AddItemPoints(PricePoints(items[i]), [exc |-> "", points |-> 0])

\* 5. points based on item descriptions: the loop over receipt.items, from
\* item i on.  exc is the exception that ends the loop, "" if none.
RECURSIVE DescriptionPoints(_, _)
DescriptionPoints(items, i) ==
    IF i > Len(items) THEN [exc |-> "", points |-> 0]
    ELSE IF ~DescriptionQualifies(items[i]) THEN DescriptionPoints(items, i + 1)
    ELSE AddItemPoints(PricePoints(items[i]), DescriptionPoints(items, i + 1))

\* 6. 6 points if the day in the purchase date is odd.
OddDayPoints(purchaseDate) ==
    IF strptime_date(purchaseDate).day % 2 # 0 THEN 6 ELSE 0

\* the bug "2pm to 4pm inclusive": hour 16 counted as well
AfternoonPointsThrough16(purchaseTime) ==
    IF strptime_time(purchaseTime).hour \in {14, 15, 16} THEN 10 ELSE 0

\* 7. 10 points if the time of purchase is after 2:00pm and before 4:00pm.
AfternoonPoints(purchaseTime) ==
    IF strptime_time(purchaseTime).hour \in {14, 15} THEN 10 ELSE 0

calculate_points(receipt) ==
    LET d == DescriptionPoints(receipt.items, 1)
    IN  [exc |-> d.exc,
         points |-> RetailerPoints(receipt.retailer)
                    + RoundDollarPoints(receipt.total)
                    + QuarterPoints(receipt.total)
                    + PairPoints(receipt.items)
                    + d.points
                    + OddDayPoints(receipt.purchaseDate)
                    + AfternoonPoints(receipt.purchaseTime)]

(***************************************************************************)
(* The handlers.                                                           *)
(***************************************************************************)
NoId == <<>>

Response(status, id, points, error, errors) ==
    [status |-> status, id |-> id, points |-> points, error |-> error,
     errors |-> errors]

\* the list comprehension over e.errors() of the 400 response
ErrorList(errs) ==
    [k \in 1..Len(errs) |->
        [type |-> errs[k].type, attribute |-> errs[k].loc[1], msg |-> errs[k].msg]]

\* receipts_db[receipt_id] = points
DictSet(db, key, value) ==
    [k \in DOMAIN db \cup {key} |-> IF k = key THEN value ELSE db[k]]

\* the bug "reserve the identifier first": the entry is written before the
\* body is validated
process_receipt_store_first(db, data, now, receipt_id) ==
    IF data.json # "object"
    THEN [db |-> db, response |-> Response(500, NoId, 0, "Internal Server Error", <<>>)]
    ELSE LET errs == ReceiptErrors(data, now)
         IN  IF errs # <<>>
             THEN [db |-> DictSet(db, receipt_id, 0),
                   response |-> Response(400, NoId, 0, "", ErrorList(errs))]
             ELSE [db |-> DictSet(db, receipt_id, calculate_points(data).points),
                   response |-> Response(200, receipt_id, 0, "", <<>>)]

\* The whole of process_receipt, on the dictionary db, for the decoded body
\* data, the current date now and the identifier uuid4 gives: the dictionary
\* afterwards and the response.  A body that is not a JSON object makes
\* Receipt(**data) raise TypeError, which the last handler turns into 500.
process_receipt(db, data, now, receipt_id) ==
    IF data.json # "object"
    THEN [db |-> db, response |-> Response(500, NoId, 0, "Internal Server Error", <<>>)]
    ELSE LET errs == ReceiptErrors(data, now)
         IN  IF errs # <<>>
             THEN [db |-> db, response |-> Response(400, NoId, 0, "", ErrorList(errs))]
             ELSE LET cp == calculate_points(data)
                  IN  IF cp.exc # ""
                      THEN [db |-> db,
                            response |-> Response(500, NoId, 0, "Internal Server Error", <<>>)]
                      ELSE [db |-> DictSet(db, receipt_id, cp.points),
                            response |-> Response(200, receipt_id, 0, "", <<>>)]

\* the bug "if not points": a score of 0 reported as not found
get_points_falsy(db, receipt_id) ==
    IF ~match_id(receipt_id)
    THEN Response(400, NoId, 0, "Invalid receipt ID format.", <<>>)
    ELSE IF receipt_id \notin DOMAIN db \/ db[receipt_id] = 0
         THEN Response(404, NoId, 0, "Receipt not found.", <<>>)
         ELSE Response(200, NoId, db[receipt_id], "", <<>>)

\* The whole of get_points
get_points(db, receipt_id) ==
    IF ~match_id(receipt_id)
    THEN Response(400, NoId, 0, "Invalid receipt ID format.", <<>>)
    ELSE IF receipt_id \notin DOMAIN db
         THEN Response(404, NoId, 0, "Receipt not found.", <<>>)
         ELSE Response(200, NoId, db[receipt_id], "", <<>>)

(***************************************************************************)
(* State.                                                                  *)
(***************************************************************************)
VARIABLES
    receipts_db,   \* the dictionary: identifier -> points
    today,         \* the server's local date, datetime.today().date()
    request,       \* the request handled last, with the date it was handled on
    response,      \* its response
    issued         \* history: identifier -> points, for each 200 of process_receipt

vars == <<receipts_db, today, request, response, issued>>

EmptyDict == [k \in {} |-> 0]

\* the bodies that are not a JSON object carry no fields
Body(json, retailer, purchaseDate, purchaseTime, items, total) ==
    [json |-> json, retailer |-> retailer, purchaseDate |-> purchaseDate,
     purchaseTime |-> purchaseTime, items |-> items, total |-> total]

NoBody == Body("none", <<>>, <<>>, <<>>, <<>>, <<>>)

NoResponse == Response(0, NoId, 0, "", <<>>)

(***************************************************************************)
(* Bounds and inputs.                                                      *)
(***************************************************************************)
\* receipts stored before the model stops accepting more
MaxReceipts == 2

\* days the clock advances
MaxTicks == 2

\* items on a receipt
MaxItems == 2

\* length of the strings tried as price and total
MaxStrLen == 5

StartDay == [ok |-> TRUE, year |-> 2024, month |-> 2, day |-> 28]

RECURSIVE DaysBeforeMonth(_, _)
DaysBeforeMonth(y, m) ==
    IF m = 1 THEN 0 ELSE DaysInMonth(y, m - 1) + DaysBeforeMonth(y, m - 1)

\* date.toordinal
Ordinal(d) ==
    LET y == d.year - 1
    IN  365 * y + (y \div 4) - (y \div 100) + (y \div 400)
        + DaysBeforeMonth(d.year, d.month) + d.day

NextDay(d) ==
    IF d.day < DaysInMonth(d.year, d.month) THEN [d EXCEPT !.day = d.day + 1]
    ELSE IF d.month < 12 THEN [d EXCEPT !.month = d.month + 1, !.day = 1]
    ELSE [d EXCEPT !.year = d.year + 1, !.month = 1, !.day = 1]

\* str(uuid.uuid4()), shortened: identifiers without whitespace.  uuid4 is
\* taken to give an identifier it has not given before.
UUIDs == {<<"a", "1">>, <<"b", "2">>, <<"c", "3">>}

uuid4(given) ==
    UUIDs \ given

Target == <<"T", "a", "r", "g", "e", "t">>

Retailers == {Target, <<"a", "_", "b", " ", "&", "-", "1">>}

PastDates ==
    {<<"2", "0", "2", "2", "-", "0", "1", "-", "0", "1">>,
     <<"2", "0", "2", "4", "-", "0", "2", "-", "2", "8">>}

Times ==
    {<<"0", "4", ":", "1", "5">>, <<"1", "3", ":", "5", "9">>,
     <<"1", "4", ":", "0", "0">>, <<"1", "5", ":", "5", "9">>,
     <<"1", "6", ":", "0", "0">>, <<"2", "3", ":", "1", "4">>}

SeqsUpTo(S, n) ==
    UNION {[1..k -> S] : k \in 0..n}

\* the receipts calculate_points is tried on
ScoreBodies ==
    {Body("object", r, d, t, i, tot) :
        r \in Retailers, d \in PastDates, t \in Times,
        i \in SeqsUpTo(Items, MaxItems), tot \in Totals}

\* the purchase dates sent to the running service: the first days of the clock,
\* a day that does not exist, a date followed by a newline, a date not in
\* the format
ServiceDates ==
    {<<"2", "0", "2", "4", "-", "0", "2", "-", "2", "8">>,
     <<"2", "0", "2", "4", "-", "0", "2", "-", "2", "9">>,
     <<"2", "0", "2", "4", "-", "0", "3", "-", "0", "1">>,
     <<"2", "0", "2", "4", "-", "0", "2", "-", "3", "0">>,
     <<"2", "0", "2", "4", "-", "0", "2", "-", "2", "8", "\n">>,
     <<"2", "0", "2", "4", "-", "2", "-", "2", "8">>}

BaseBody ==
    Body("object", Target, <<"2", "0", "2", "2", "-", "0", "1", "-", "0", "1">>,
         <<"1", "3", ":", "0", "1">>, <<>>, BaseTotal)

\* the bodies sent to the running service
ServiceBodies ==
    {[BaseBody EXCEPT !.purchaseDate = d] : d \in ServiceDates}
    \cup {[BaseBody EXCEPT !.items = <<Item(<<"a", "b">>, <<"3", ".", "5">>)>>],
          [BaseBody EXCEPT !.items = <<Item(<<"a", "b">>, <<"3", ".", "5", "0">>),
                                       Item(<<"a", "b">>, <<"3", ".", "5">>)>>,
                           !.total = <<"3", "5">>],
          [BaseBody EXCEPT !.retailer = <<"&">>,
                           !.purchaseDate = <<"2", "0", "2", "2", "-", "0", "1", "-", "0", "2">>],
          [BaseBody EXCEPT !.purchaseTime = <<"2", "4", ":", "0", "0">>],
          [BaseBody EXCEPT !.retailer = <<>>],
          Body("array", <<>>, <<>>, <<>>, <<>>, <<>>)}

\* the identifiers asked for: those uuid4 can give, one with whitespace inside,
\* one with a newline at the end, one never given
RequestIds ==
    UUIDs \cup {<<"a", " ", "1">>, <<"a", "1", "\n">>, <<"z", "9">>}

FormatChars == {"1", "0", ".", "-", "\n"}

\* the strings tried as price and as total
FormatStrings ==
    UNION {[1..k -> FormatChars] : k \in 1..MaxStrLen}

(***************************************************************************)
(* Actions.                                                                *)
(***************************************************************************)
Init ==
    /\ receipts_db = EmptyDict
    /\ today = StartDay
    /\ request = [op |-> "none", data |-> NoBody, id |-> NoId, now |-> StartDay]
    /\ response = NoResponse
    /\ issued = EmptyDict

\* POST /receipts/process with body data
ProcessReceipt(data) ==
    /\ Cardinality(DOMAIN receipts_db) < MaxReceipts
    /\ \E receipt_id \in uuid4(DOMAIN issued) :
          \E out \in {process_receipt(receipts_db, data, today, receipt_id)} :
              /\ receipts_db' = out.db
              /\ response' = out.response
              /\ issued' = IF out.response.status = 200
                           THEN DictSet(issued, receipt_id, out.db[receipt_id])
                           ELSE issued
    /\ request' = [op |-> "process", data |-> data, id |-> NoId, now |-> today]
    /\ UNCHANGED today

\* GET /receipts/<receipt_id>/points
GetPoints(receipt_id) ==
    /\ response' = get_points(receipts_db, receipt_id)
    /\ request' = [op |-> "get", data |-> NoBody, id |-> receipt_id, now |-> today]
    /\ UNCHANGED <<receipts_db, today, issued>>

\* midnight passes
Tick ==
    /\ Ordinal(today) - Ordinal(StartDay) < MaxTicks
    /\ today' = NextDay(today)
    /\ UNCHANGED <<receipts_db, request, response, issued>>

Next ==
    \/ \E data \in ServiceBodies : ProcessReceipt(data)
    \/ \E receipt_id \in RequestIds : GetPoints(receipt_id)
    \/ Tick

\* the running service
Spec == Init /\ [][Next]_vars

\* calculate_points on one receipt
NextScore ==
    /\ request.op = "none"
    /\ \E data \in ScoreBodies : ProcessReceipt(data)

SpecScore == Init /\ [][NextScore]_vars

\* the validators of price and total on one string
NextFormat ==
    \/ /\ request.op = "none"
       /\ \E v \in FormatStrings : ProcessReceipt([BaseBody EXCEPT !.total = v])
    \/ /\ request.op = "none"
       /\ \E v \in FormatStrings :
             ProcessReceipt([BaseBody EXCEPT !.items = <<Item(<<"a", "b", "c">>, v)>>])

SpecFormat == Init /\ [][NextFormat]_vars

(***************************************************************************)
(* Properties.                                                             *)
(***************************************************************************)
\* the last request was a receipt that validated and was scored
Scored ==
    request.op = "process" /\ response.status = 200

\* the points stored for it
Stored ==
    receipts_db[response.id]

RECURSIVE SumSeq(_)
SumSeq(f) ==
    IF f = <<>> THEN 0 ELSE f[1] + SumSeq(Tail(f))

DigitsOf(v) ==
    SelectSeq(v, LAMBDA c : c \in Digits)

\* minutes since midnight of HH:MM
MinuteOfDay(t) ==
    60 * (10 * DigitVal(t[1]) + DigitVal(t[2])) + 10 * DigitVal(t[4]) + DigitVal(t[5])

\* 14:00 up to and including 15:59
InAfternoon(t) ==
    MinuteOfDay(t) >= 14 * 60 /\ MinuteOfDay(t) <= 15 * 60 + 59

TotalCentsMod25(total) ==
    NatDivMod(NatOfDigits(DigitsOf(total)), 25).rem

\* C2: for a validated receipt the stored score is the other six rules plus
\* 25 exactly when the total in integer cents is divisible by 25.
C2_QuarterIffCents ==
    Scored =>
        LET r == request.data
        IN  Stored = RetailerPoints(r.retailer) + RoundDollarPoints(r.total)
                     + PairPoints(r.items)
                     + DescriptionPoints(r.items, 1).points
                     + OddDayPoints(r.purchaseDate)
                     + AfternoonPoints(r.purchaseTime)
                     + (IF TotalCentsMod25(r.total) = 0 THEN 25 ELSE 0)

\* the price in cents
Cents(price) ==
    IntOfDigits(DigitsOf(price))

\* cents / 500 rounded to the nearest integer, halves away from zero
RoundHalfAway(cents) ==
    (cents + 250) \div 500

\* the six rules other than rule 5
PointsBesideDescriptions(r) ==
    RetailerPoints(r.retailer) + RoundDollarPoints(r.total)
    + QuarterPoints(r.total) + PairPoints(r.items)
    + OddDayPoints(r.purchaseDate) + AfternoonPoints(r.purchaseTime)

\* C3: for a validated receipt, rule 5 adds, for each item whose description
\* passes the length test, 20% of the price rounded to the nearest integer
\* with halves away from zero (2.50 gives 1), summed item by item.
C3_RoundHalfAway ==
    Scored =>
        LET r == request.data
        IN  Stored = PointsBesideDescriptions(r)
                     + SumSeq([k \in 1..Len(r.items) |->
                                 IF DescriptionQualifies(r.items[k])
                                 THEN RoundHalfAway(Cents(r.items[k].price))
                                 ELSE 0])

\* the trimmed description has a length that is a positive multiple of 3
PositiveMultipleOf3(item) ==
    LET n == Len(strip(item.shortDescription))
    IN  n > 0 /\ n % 3 = 0

\* C4: for a validated receipt, rule 5 adds the price points of exactly the
\* items whose trimmed description length is a positive multiple of 3; an item
\* whose trimmed description is empty adds nothing.
C4_PositiveMultipleOnly ==
    Scored =>
        LET r == request.data
        IN  Stored = PointsBesideDescriptions(r)
                     + SumSeq([k \in 1..Len(r.items) |->
                                 IF PositiveMultipleOf3(r.items[k])
                                 THEN IntOfNat(PricePoints(r.items[k]).val)
                                 ELSE 0])

\* C7: the stored score of a validated receipt equals calculate_points of the
\* receipt with its items in any other order.
C7_PermutationInvariant ==
    Scored =>
        LET r == request.data
        IN  \A p \in Permutations(1..Len(r.items)) :
                calculate_points(
                    [r EXCEPT !.items = [k \in 1..Len(r.items) |-> r.items[p[k]]]]
                ).points = Stored

C7_Witness ==
    /\ Scored
    /\ Len(request.data.items) = 2
    /\ request.data.items[1] # request.data.items[2]
    /\ DescriptionQualifies(request.data.items[1])
    /\ ~DescriptionQualifies(request.data.items[2])
    /\ IntOfNat(PricePoints(request.data.items[1]).val) > 0
    /\ IntOfNat(PricePoints(request.data.items[2]).val) > 0

\* the response lists an error for the top-level field name
HasError(name) ==
    \E k \in 1..Len(response.errors) : response.errors[k].attribute = name

DigitChar(n) ==
    CHOOSE c \in Digits : DigitVal(c) = n

Pad2(n) ==
    <<DigitChar(n \div 10), DigitChar(n % 10)>>

\* YYYY-MM-DD of a date
FormatDate(d) ==
    Pad2(d.year \div 100) \o Pad2(d.year % 100) \o <<"-">> \o Pad2(d.month)
    \o <<"-">> \o Pad2(d.day)

\* the real calendar days of the years around the clock
CalendarDays ==
    {[ok |-> TRUE, year |-> y, month |-> m, day |-> d] :
        y \in {2022, 2024}, m \in 1..12, d \in 1..31}
    \ {c \in [ok : {TRUE}, year : {2022, 2024}, month : 1..12, day : 29..31] :
          c.day > DaysInMonth(c.year, c.month)}

\* the well-formed purchase date of the last request, as a set: empty when
\* the string is no real calendar day
PurchaseDay ==
    {c \in CalendarDays : FormatDate(c) = request.data.purchaseDate}

\* C5: a submitted receipt whose purchaseDate is a well-formed real calendar
\* day has no purchaseDate error when that day is the current date, and gets
\* the validation outcome 400 with a purchaseDate error, never 500, when it
\* is one or more days after the current date.
C5_TodayAcceptedFutureRejected ==
    (request.op = "process" /\ request.data.json = "object") =>
        \A c \in PurchaseDay :
            /\ Ordinal(c) = Ordinal(request.now) => ~HasError("purchaseDate")
            /\ Ordinal(c) > Ordinal(request.now) =>
                   response.status = 400 /\ HasError("purchaseDate")

C5_Witness ==
    /\ request.op = "process"
    /\ request.now # StartDay
    /\ request.data.purchaseDate = FormatDate(request.now)
    /\ response.status = 200

\* digits, a point, two digits, and nothing else
WellShaped(v) ==
    /\ Len(v) >= 4
    /\ \A i \in 1..Len(v) : IF i = Len(v) - 2 THEN v[i] = "." ELSE v[i] \in Digits

\* C6: a submitted receipt with an item whose price is not of the
\* two-fractional-digit shape gets the validation outcome 400 with an error
\* whose attribute names the price field.
C6_PriceErrorNamesPrice ==
    (/\ request.op = "process"
     /\ request.data.json = "object"
     /\ \E i \in 1..Len(request.data.items) : ~WellShaped(request.data.items[i].price))
    => (response.status = 400
        /\ \E k \in 1..Len(response.errors) : response.errors[k].attribute = "price")

\* C8: validation accepts a total, and an item's price, exactly when the
\* whole string is digits, a point and two digits.
C8_AmountShape ==
    (request.op = "process" /\ request.data.json = "object") =>
        /\ ~HasError("total") <=> WellShaped(request.data.total)
        /\ ~HasError("items") <=>
               \A i \in 1..Len(request.data.items) :
                   WellShaped(request.data.items[i].price)

\* every identifier given out is stored with the points it was given out with
IssuedKept ==
    \A id \in DOMAIN issued :
        id \in DOMAIN receipts_db /\ receipts_db[id] = issued[id]

\* the identifier passes the format check of get_points: no whitespace in
\* it, but for one newline at its end
PassesIdCheck(id) ==
    LET core == IF id # <<>> /\ id[Len(id)] = "\n" THEN SubSeq(id, 1, Len(id) - 1)
                ELSE id
    IN  core # <<>> /\ \A i \in 1..Len(core) : core[i] \notin Whitespace

\* C9 as claimed: every identifier given out stays stored with its points,
\* get_points on it returns them, and get_points on any other identifier
\* answers not found.
C9_Original ==
    /\ IssuedKept
    /\ request.op = "get" =>
           IF request.id \in DOMAIN issued
           THEN response.status = 200 /\ response.points = issued[request.id]
           ELSE response.status = 404

\* C9, amended: every identifier given out stays stored with its points,
\* get_points on it returns them (a score of 0 included), and get_points on
\* any other identifier answers not found (404) if the identifier passes the
\* format check and bad request (400) if it does not.
C9_IssuedPointsKept ==
    /\ IssuedKept
    /\ request.op = "get" =>
           IF request.id \in DOMAIN issued
           THEN response.status = 200 /\ response.points = issued[request.id]
           ELSE IF PassesIdCheck(request.id) THEN response.status = 404
           ELSE response.status = 400

C9_Witness ==
    /\ request.op = "get"
    /\ Cardinality(DOMAIN issued) = MaxReceipts
    /\ request.id \in DOMAIN issued
    /\ issued[request.id] = 0
    /\ \E id \in DOMAIN issued : issued[id] > 0
    /\ response.status = 200
    /\ response.points = 0

\* C10: a process_receipt request answered 400 or 500 leaves the dictionary
\* as it was, and so does every get_points request.
C10_ErrorsAndReadsKeepStore ==
    [][/\ (request'.op = "process" /\ response'.status # 200)
              => receipts_db' = receipts_db
       /\ request'.op = "get" => receipts_db' = receipts_db]_vars

C10_Witness ==
    /\ request.op = "process"
    /\ response.status = 500
    /\ Cardinality(DOMAIN receipts_db) = 1

====
